---- MODULE Spec2Model ----
(***************************************************************************)
(* reddit_cv_analysis: the streaming filter / buffer / flush pipeline of   *)
(* filter_reddit_comments.process_comments and                             *)
(* filter_reddit_submissions.process_submissions, their write_batch_to_disk*)
(* and the write_batch_to_disk of reddit_utils.                            *)
(*                                                                         *)
(* One behaviour is one archive run (kind "comments" or "submissions") or  *)
(* one sequence of direct calls of reddit_utils.write_batch_to_disk by a   *)
(* caller that passes the returned header_written flag back (kind "utils").*)
(* The archive is a stream: each step of the read loop draws the next line *)
(* from Lines(kind).  A row is identified by the number of the archive     *)
(* line it comes from.  (Specification Spec.)                              *)
(*                                                                         *)
(* filter_reddit_dumps.main is a second specification, SpecDumps: a        *)
(* dataset of archives with fixed contents, the output files of each       *)
(* archive, and invocations of main that walk the submissions listing and  *)
(* then the comments listing; one step handles one archive, running        *)
(* process_submissions / process_comments over its lines.                  *)
(*                                                                         *)
(* parallel_filter_reddit_dumps.main is SpecParallel: the two listings, the*)
(* tasks main builds from them, and a pool of workers that each run one    *)
(* script to its exit.  The command line of the two scripts is SpecCli: one*)
(* archive with fixed lines, the two list files and --output_directory as  *)
(* arguments, and the script run twice.  SpecBatch is process_comments over*)
(* records that pass every check, with the columns of each row.            *)
(***************************************************************************)
EXTENDS Integers, Sequences, FiniteSets, TLC

(* ------------------------------ bounds -------------------------------- *)
\* lines read from one archive
MaxLines == 3
\* largest batch_size tried (batch_size is 1 or MaxBatch)
MaxBatch == 2
\* most policy markers one record carries
MaxMarks == 2
\* most direct calls of reddit_utils.write_batch_to_disk in one behaviour
MaxCalls == 3
\* invocations of filter_reddit_dumps.main on one dataset
MaxRuns == 2
\* reads and writes that fail in one behaviour of filter_reddit_dumps.main
MaxFaults == 1
\* largest process pool tried (max_workers is 1 or MaxWorkers)
MaxWorkers == 2
\* most archives in the dataset of parallel_filter_reddit_dumps.main
MaxArchives == 2

(* --------------------------- JSON values ------------------------------ *)
\* obj.get(key) on a missing key, and a key present with the JSON value null
Absent == "<absent>"
Null == "<null>"

Kinds == {"comments", "submissions", "utils"}

\* str.lower() on the strings of the model
Lower(s) ==
    CASE s = "TestSub" -> "testsub"
      [] s = "Spammer" -> "spammer"
      [] OTHER -> s

\* str.strip() on the strings of the model
Strip(s) == IF s = " " THEN "" ELSE s

\* load_list_from_file that keeps the lines that are empty after strip()
RECURSIVE load_list_keep_empty(_)
load_list_keep_empty(lines) ==
    IF lines = <<>> THEN {}
    ELSE {Lower(Strip(Head(lines)))} \cup load_list_keep_empty(Tail(lines))

RECURSIVE load_list_from_file(_)
load_list_from_file(lines) ==
    IF lines = <<>> THEN {}
    ELSE LET item == Strip(Head(lines))
         IN  (IF item # "" THEN {Lower(item)} ELSE {})
                 \cup load_list_from_file(Tail(lines))

\* the allow-list file and the block-list file, line by line
subreddits_file == <<"TestSub", " ">>
bot_usernames_file == <<"Spammer", "">>

\* argparse leaves an option that was not given at None
None == "<None>"

\* the input_file of a run whose archive is a stream of any lines
AnyArchive == "<any>"

(* ------------------------------ lines --------------------------------- *)
\* The keys the policy checks read.  A key is in a record's marks when the
\* code's test on it is true (is not None, truthy, == 1, == True).
CommentMarkers ==
    {"banned_by", "collapsed_because_crowd_control", "comment_type",
     "controversiality", "mod_reason_by", "mod_reason_title", "removal_reason"}
SubmissionMarkers ==
    {"quarantine", "banned_by", "removed_by", "removed_by_category", "over_18"}

Markers(k) == IF k = "comments" THEN CommentMarkers ELSE SubmissionMarkers

SubredditValues == {"TestSub", "other", Absent, Null}
AuthorValues == {"alice", "Spammer", "[deleted]", Absent, Null}

NoLine == [tag |-> "none", subreddit |-> Absent, author |-> Absent, marks |-> {}]
Plain(t) == [tag |-> t, subreddit |-> Absent, author |-> Absent, marks |-> {}]
Object(s, a, m) == [tag |-> "object", subreddit |-> s, author |-> a, marks |-> m]

MarkSets(k) == {x \in SUBSET Markers(k) : Cardinality(x) <= MaxMarks}

\* The lines an archive is made of: a blank line, text that is no JSON, JSON
\* that is no object, and JSON objects: every forum with a plain author,
\* and the allow-listed forum with every author, without a marker; the
\* allow-listed forum and a plain author with every set of at most MaxMarks
\* markers; a block-listed author, in the allow-listed forum and in
\* another, with each single marker.
Lines(k) ==
    {Plain("blank"), Plain("notjson"), Plain("nonobject")}
    \cup {Object(s, "alice", {}) : s \in SubredditValues}
    \cup {Object("TestSub", a, {}) : a \in AuthorValues}
    \cup {Object("TestSub", "alice", m) : m \in MarkSets(k)}
    \cup {Object(s, "Spammer", m) : s \in {"TestSub", "other"},
                                    m \in {{}} \cup {{x} : x \in Markers(k)}}

(* ----------------------------- counters ------------------------------- *)
CommentReasons ==
    {"not_interest_subreddit", "bad_lines", "bots", "banned", "crowd_control",
     "non_text", "controversial", "removed"}
SubmissionReasons ==
    {"not_interest_subreddit", "bad_lines", "bots", "quarantine", "author_blocked",
     "banned", "removed", "removed_category", "over_18"}
Reasons(k) == IF k = "comments" THEN CommentReasons ELSE SubmissionReasons

Forums == {"testsub", "other", ""}

RECURSIVE SumOver(_, _)
SumOver(f, S) ==
    IF S = {} THEN 0
    ELSE LET x == CHOOSE y \in S : TRUE IN f[x] + SumOver(f, S \ {x})

Sum(f) == SumOver(f, DOMAIN f)

RECURSIVE SumSeq(_)
SumSeq(s) == IF s = <<>> THEN 0 ELSE Head(s) + SumSeq(Tail(s))

(* ------------------------------ files --------------------------------- *)
HeaderLine == [kind |-> "header", id |-> 0]
Row(i) == [kind |-> "row", id |-> i]
\* a row left in the files by an earlier run
OldRow == Row(0)

NoCsv == [exists |-> FALSE, lines |-> <<>>]
NoParquet == [exists |-> FALSE, rows |-> <<>>]
\* the files an earlier run left: a header and one row, and the same row
OldCsv == [exists |-> TRUE, lines |-> <<HeaderLine, OldRow>>]
OldParquet == [exists |-> TRUE, rows |-> <<0>>]

HeaderCount(f) == Cardinality({i \in DOMAIN f.lines : f.lines[i].kind = "header"})
DataRows(f) == Cardinality({i \in DOMAIN f.lines : f.lines[i].kind = "row"})
\* the ids of the data rows of a CSV file, in file order
RECURSIVE CsvIds(_)
CsvIds(ls) ==
    IF ls = <<>> THEN <<>>
    ELSE (IF Head(ls).kind = "row" THEN <<Head(ls).id>> ELSE <<>>) \o CsvIds(Tail(ls))

VARIABLES
    kind,                      \* which code runs
    batch_size,                \* the batch_size argument
    pc,                        \* "streaming", "done" (returned), "failed" (raised)
    failure,                   \* what raised: "none", "AttributeError", "read", "csv", "parquet"
    total_lines,
    filtered_counts,
    subreddit_counts,
    filtered_subreddit_counts,
    data,                      \* the buffer: line numbers of the buffered records
    csv,                       \* output_csv_file
    parquet,                   \* output_parquet_file
    stats,                     \* stats_output_file: the reports written, in order
    header_written,            \* the flag the caller of reddit_utils holds
    lastLine,                  \* the line the loop body has just handled; NoLine outside the loop
    kept,                      \* line numbers of the lines no check matches
    flushes,                   \* sizes of the batches write_batch_to_disk returned from
    resumed,                   \* the run began with both output files on disk
    rewrites,                  \* calls that read the Parquet file back and wrote it anew
    \* filter_reddit_dumps.main
    archives,                  \* the lines of each archive of the dataset
    disk,                      \* the output files of each archive
    cursor,                    \* position of main in the listing of the archives
    run,                       \* which invocation of main this is
    outcome,                   \* what this invocation did with each archive
    faults,                    \* reads and writes that have failed so far
    \* parallel_filter_reddit_dumps.main
    tasks,                     \* the tasks main has built
    max_workers,               \* the size of the process pool
    \* the command line of filter_reddit_comments / filter_reddit_submissions
    args,                      \* input_file, the two list files, --output_directory
    output_directory,          \* the directory the run writes into
    subreddits_set,            \* load_list_from_file(subreddits_file)
    bot_usernames_set,         \* load_list_from_file(bot_usernames_file)
    previous                   \* what the run before this one left behind

\* the variables of one archive run, and those of filter_reddit_dumps.main
runVars == <<total_lines, filtered_counts, subreddit_counts,
             filtered_subreddit_counts, data, csv, parquet, stats, header_written,
             lastLine, kept, flushes, resumed, failure, rewrites>>
dumpsVars == <<archives, disk, cursor, run, outcome, faults>>
\* the arguments of one call, the two sets it loads, and the run before it
cliVars == <<args, output_directory, subreddits_set, bot_usernames_set, previous>>
\* the variables that a step of the read loop or of filter_reddit_dumps.main
\* never changes
otherVars == <<tasks, max_workers, cliVars>>

vars == <<kind, batch_size, pc, failure, total_lines, filtered_counts,
          subreddit_counts, filtered_subreddit_counts, data, csv, parquet, stats,
          header_written, lastLine, kept, flushes, resumed, rewrites,
          archives, disk, cursor, run, outcome, faults, tasks, max_workers,
          args, output_directory, subreddits_set, bot_usernames_set, previous>>

(* ------------------------- the record filter -------------------------- *)
\* obj.get(key, default)
Get(obj, key, default) == IF obj[key] = Absent THEN default ELSE obj[key]

\* the policy checks of process_comments, in order, first match wins
CommentPolicy(obj) ==
    IF "banned_by" \in obj.marks THEN "banned"
    ELSE IF "collapsed_because_crowd_control" \in obj.marks THEN "crowd_control"
    ELSE IF "comment_type" \in obj.marks THEN "non_text"
    ELSE IF "controversiality" \in obj.marks THEN "controversial"
    ELSE IF \/ "mod_reason_by" \in obj.marks
            \/ "mod_reason_title" \in obj.marks
            \/ "removal_reason" \in obj.marks THEN "removed"
    ELSE "kept"

\* the policy checks of process_submissions, in order, first match wins
SubmissionPolicy(obj) ==
    IF "quarantine" \in obj.marks THEN "quarantine"
    ELSE IF "banned_by" \in obj.marks THEN "banned"
    ELSE IF "removed_by" \in obj.marks THEN "removed"
    ELSE IF "removed_by_category" \in obj.marks THEN "removed_category"
    ELSE IF "over_18" \in obj.marks THEN "over_18"
    ELSE "kept"

\* author in bot_usernames_set or author == '[deleted]'
IsBot(author) == author \in bot_usernames_set \/ author = "[deleted]"

\* Classify with the policy checks moved before the block-list check
ClassifyPolicyFirst(k, line) ==
    LET policy == IF k = "comments" THEN CommentPolicy(line) ELSE SubmissionPolicy(line)
    IN  IF line.tag = "blank" THEN "bad_lines"
        ELSE IF line.tag = "notjson" THEN "bad_lines"
        ELSE IF line.tag = "nonobject" THEN "raise"
        ELSE IF Get(line, "subreddit", "") = Null THEN "raise"
        ELSE IF Lower(Get(line, "subreddit", "")) \notin subreddits_set
             THEN "not_interest_subreddit"
        ELSE IF Get(line, "author", "") = Null THEN "raise"
        ELSE IF policy # "kept" THEN policy
        ELSE IF IsBot(Lower(Get(line, "author", ""))) THEN "bots"
        ELSE "kept"

\* Classify without the except clause: text that is no JSON ends the run
ClassifyNoExcept(k, line) ==
    IF line.tag = "blank" THEN "bad_lines"
    ELSE IF line.tag \in {"notjson", "nonobject"} THEN "raise"
    ELSE IF Get(line, "subreddit", "") = Null THEN "raise"
    ELSE IF Lower(Get(line, "subreddit", "")) \notin subreddits_set
         THEN "not_interest_subreddit"
    ELSE IF Get(line, "author", "") = Null THEN "raise"
    ELSE IF IsBot(Lower(Get(line, "author", ""))) THEN "bots"
    ELSE IF k = "comments" THEN CommentPolicy(line)
    ELSE SubmissionPolicy(line)

\* Classify with a blank line passed over: it is counted under no reason
ClassifyBlankSkipped(k, line) ==
    IF line.tag = "blank" THEN "skipped"
    ELSE IF line.tag = "notjson" THEN "bad_lines"
    ELSE IF line.tag = "nonobject" THEN "raise"
    ELSE IF Get(line, "subreddit", "") = Null THEN "raise"
    ELSE IF Lower(Get(line, "subreddit", "")) \notin subreddits_set
         THEN "not_interest_subreddit"
    ELSE IF Get(line, "author", "") = Null THEN "raise"
    ELSE IF IsBot(Lower(Get(line, "author", ""))) THEN "bots"
    ELSE IF k = "comments" THEN CommentPolicy(line)
    ELSE SubmissionPolicy(line)

\* One pass of the loop body: the counter the line is counted under, "kept"
\* (data.append), or "raise": obj.get on a JSON value that is no object, and
\* .lower() on None, raise AttributeError, which the except clause
\* (json.JSONDecodeError) does not catch.
Classify(k, line) ==
    IF line.tag = "blank" THEN "bad_lines"
    ELSE IF line.tag = "notjson" THEN "bad_lines"
    ELSE IF line.tag = "nonobject" THEN "raise"
    ELSE IF Get(line, "subreddit", "") = Null THEN "raise"
    ELSE IF Lower(Get(line, "subreddit", "")) \notin subreddits_set
         THEN "not_interest_subreddit"
    ELSE IF Get(line, "author", "") = Null THEN "raise"
    ELSE IF IsBot(Lower(Get(line, "author", ""))) THEN "bots"
    ELSE IF k = "comments" THEN CommentPolicy(line)
    ELSE SubmissionPolicy(line)

\* the line reached subreddit_counts[subreddit] += 1
CountedSeen(line) == line.tag = "object" /\ Get(line, "subreddit", "") # Null

\* the line reached filtered_subreddit_counts[subreddit] += 1
CountedKept(line) ==
    CountedSeen(line) /\ Lower(Get(line, "subreddit", "")) \in subreddits_set

(* -------------------------- the batch writer -------------------------- *)
\* what a call of write_batch_to_disk does: returns, raises in to_csv before
\* anything is written, or raises in the Parquet write after to_csv returned
WriteResults == {"ok", "csv", "parquet"}

\* CsvHeader that asks for the header on every batch
CsvHeaderAlways(k, csvf, hw) == TRUE

\* the header argument of to_csv
CsvHeader(k, csvf, hw) == IF k = "utils" THEN ~hw ELSE ~csvf.exists

\* df_batch.to_csv(output_csv_file, mode='a', header=header)
to_csv(csvf, batch, header) ==
    [exists |-> TRUE,
     lines |-> csvf.lines \o (IF header THEN <<HeaderLine>> ELSE <<>>)
                          \o [i \in 1..Len(batch) |-> Row(batch[i])]]

\* to_parquet that writes the batch over an existing file without the concat
to_parquet_overwrite(k, pqf, batch) == [exists |-> TRUE, rows |-> batch]

\* the Parquet branch: create the file, or read + concat + rewrite
\* (comments, submissions), or fastparquet.write(append=True) (utils)
to_parquet(k, pqf, batch) ==
    IF ~pqf.exists THEN [exists |-> TRUE, rows |-> batch]
    ELSE [exists |-> TRUE, rows |-> pqf.rows \o batch]

\* the Parquet branch taken on an existing file reads the whole file back
\* (pd.read_parquet), concatenates and writes the whole file anew; the
\* branch of reddit_utils appends a row group (fastparquet.write(append=True))
reads_back(k, pqf) == pqf.exists /\ k # "utils"

write_batch_to_disk(k, batch, csvf, pqf, hw, result) ==
    IF result = "csv"
    THEN [csv |-> csvf, parquet |-> pqf, header_written |-> hw, raised |-> TRUE,
          rewrote |-> FALSE]
    ELSE IF result = "parquet"
    THEN [csv |-> to_csv(csvf, batch, CsvHeader(k, csvf, hw)), parquet |-> pqf,
          header_written |-> hw, raised |-> TRUE, rewrote |-> FALSE]
    ELSE [csv |-> to_csv(csvf, batch, CsvHeader(k, csvf, hw)),
          parquet |-> to_parquet(k, pqf, batch),
          header_written |-> TRUE, raised |-> FALSE,
          rewrote |-> reads_back(k, pqf)]

\* BatchFull of a loop that never flushes: everything is left to the end
BatchFullNever(d, b) == FALSE

\* BatchFull with > in the place of >=
BatchFullStrict(d, b) == Len(d) > b

\* if len(data) >= batch_size
BatchFull(d, b) == Len(d) >= b

\* clear that leaves the flushed records in the buffer
clear_nothing(d) == d

\* data.clear() after a flush
clear(d) == <<>>

(* ------------------------ the statistics report ----------------------- *)
\* TotalFiltered that leaves the bad lines out of the sum
TotalFilteredNoBadLines(fc) == Sum(fc) - fc["bad_lines"]

\* total_filtered = sum(filtered_counts.values())
TotalFiltered(fc) == Sum(fc)

Report ==
    [total_lines |-> total_lines,
     total_kept |-> total_lines - TotalFiltered(filtered_counts),
     total_filtered |-> TotalFiltered(filtered_counts),
     filtered_counts |-> filtered_counts,
     subreddit_counts |-> subreddit_counts,
     filtered_subreddit_counts |-> filtered_subreddit_counts]

(* ------------------ the checks as the spec states them ---------------- *)
\* the order of the checks of each kind
CheckOrder(k) ==
    IF k = "comments"
    THEN <<"not_interest_subreddit", "bots", "banned", "crowd_control", "non_text",
           "controversial", "removed">>
    ELSE <<"not_interest_subreddit", "bots", "quarantine", "banned", "removed",
           "removed_category", "over_18">>

\* the record matches the check of this reason, taken alone
Matches(k, reason, obj) ==
    CASE reason = "not_interest_subreddit" ->
            obj.subreddit \notin {"TestSub", "testsub"}
      [] reason = "bots" -> obj.author \in {"Spammer", "spammer", "[deleted]"}
      [] reason = "banned" -> "banned_by" \in obj.marks
      [] reason = "crowd_control" -> "collapsed_because_crowd_control" \in obj.marks
      [] reason = "non_text" -> "comment_type" \in obj.marks
      [] reason = "controversial" -> "controversiality" \in obj.marks
      [] reason = "removed" ->
            IF k = "comments"
            THEN obj.marks \cap {"mod_reason_by", "mod_reason_title", "removal_reason"} # {}
            ELSE "removed_by" \in obj.marks
      [] reason = "quarantine" -> "quarantine" \in obj.marks
      [] reason = "removed_category" -> "removed_by_category" \in obj.marks
      [] reason = "over_18" -> "over_18" \in obj.marks

\* the reason of the first check from position i on that matches, "kept" when
\* none does
RECURSIVE FirstMatchFrom(_, _, _)
FirstMatchFrom(k, obj, i) ==
    IF i > Len(CheckOrder(k)) THEN "kept"
    ELSE IF Matches(k, CheckOrder(k)[i], obj) THEN CheckOrder(k)[i]
    ELSE FirstMatchFrom(k, obj, i + 1)

FirstMatch(k, obj) == FirstMatchFrom(k, obj, 1)

(* ------------------------------- Init --------------------------------- *)
\* the arguments of a run over a stream, with the two list files above
StreamArgs ==
    [input_file |-> AnyArchive, subreddits_file |-> subreddits_file,
     bot_usernames_file |-> bot_usernames_file, output_directory |-> "out"]

\* no run came before this one
NoRun == [pc |-> "none"]

\* the lines the for loop can take next from read_zst_file(input_file)
NextLines ==
    IF args.input_file = AnyArchive THEN Lines(kind)
    ELSE IF total_lines < Len(args.input_file)
         THEN {args.input_file[total_lines + 1]} ELSE {}

\* read_zst_file(input_file) has no further line
AtEnd == args.input_file = AnyArchive \/ total_lines = Len(args.input_file)

Init ==
    /\ kind \in Kinds
    /\ batch_size \in (IF kind = "utils" THEN {1} ELSE {1, MaxBatch})
    /\ resumed \in BOOLEAN
    /\ csv = (IF resumed THEN OldCsv ELSE NoCsv)
    /\ parquet = (IF resumed THEN OldParquet ELSE NoParquet)
    \* the flag says that the header is in the file: without a file it is False;
    \* a caller that resumes into a file may or may not know of the file
    /\ header_written \in (IF kind = "utils" /\ resumed THEN BOOLEAN ELSE {FALSE})
    /\ pc = "streaming"
    /\ failure = "none"
    /\ total_lines = 0
    /\ filtered_counts = [r \in Reasons(kind) |-> 0]
    /\ subreddit_counts = [f \in Forums |-> 0]
    /\ filtered_subreddit_counts = [f \in Forums |-> 0]
    /\ data = <<>>
    /\ stats = <<>>
    /\ lastLine = NoLine
    /\ kept = <<>>
    /\ flushes = <<>>
    /\ rewrites = 0
    /\ archives = <<>>
    /\ disk = <<>>
    /\ cursor = 0
    /\ run = 0
    /\ outcome = <<>>
    /\ faults = 0
    /\ tasks = {}
    /\ args = StreamArgs
    /\ output_directory = args.output_directory
    /\ subreddits_set = load_list_from_file(args.subreddits_file)
    /\ bot_usernames_set = load_list_from_file(args.bot_usernames_file)
    /\ previous = NoRun
    /\ max_workers = 0

(* ------------------------------ actions ------------------------------- *)
\* one pass of the read loop of process_comments / process_submissions
ProcessLine ==
    /\ pc = "streaming"
    /\ kind \in {"comments", "submissions"}
    /\ total_lines < MaxLines
    /\ \E line \in NextLines :
        LET n == total_lines + 1
            out == Classify(kind, line)
            forum == Lower(Get(line, "subreddit", ""))
            buf == IF out = "kept" THEN Append(data, n) ELSE data
        IN  /\ total_lines' = n
            /\ lastLine' = line
            /\ filtered_counts' =
                 IF out \in Reasons(kind)
                 THEN [filtered_counts EXCEPT ![out] = @ + 1]
                 ELSE filtered_counts
            /\ subreddit_counts' =
                 IF CountedSeen(line)
                 THEN [subreddit_counts EXCEPT ![forum] = @ + 1]
                 ELSE subreddit_counts
            /\ filtered_subreddit_counts' =
                 IF CountedKept(line)
                 THEN [filtered_subreddit_counts EXCEPT ![forum] = @ + 1]
                 ELSE filtered_subreddit_counts
            /\ kept' = IF line.tag = "object" /\ FirstMatch(kind, line) = "kept"
                       THEN Append(kept, n) ELSE kept
            /\ IF out = "kept" /\ BatchFull(buf, batch_size)
               THEN \E result \in WriteResults :
                      LET w == write_batch_to_disk(kind, buf, csv, parquet,
                                                   header_written, result)
                      IN  /\ csv' = w.csv
                          /\ parquet' = w.parquet
                          /\ data' = (IF w.raised THEN buf ELSE clear(buf))
                          /\ flushes' = (IF w.raised THEN flushes
                                         ELSE Append(flushes, Len(buf)))
                          /\ failure' = (IF w.raised THEN result ELSE "none")
                          /\ pc' = (IF w.raised THEN "failed" ELSE "streaming")
                          /\ rewrites' = rewrites + (IF w.rewrote THEN 1 ELSE 0)
               ELSE /\ data' = buf
                    /\ failure' = (IF out = "raise" THEN "AttributeError" ELSE "none")
                    /\ pc' = (IF out = "raise" THEN "failed" ELSE "streaming")
                    /\ UNCHANGED <<csv, parquet, flushes, rewrites>>
            /\ UNCHANGED <<kind, batch_size, stats, header_written, resumed>>
            /\ UNCHANGED dumpsVars
            /\ UNCHANGED otherVars

\* read_zst_file raises: the archive cannot be opened or decompressed
ReadFail ==
    /\ pc = "streaming"
    /\ kind \in {"comments", "submissions"}
    /\ pc' = "failed"
    /\ failure' = "read"
    /\ lastLine' = NoLine
    /\ UNCHANGED <<kind, batch_size, total_lines, filtered_counts, subreddit_counts,
                   filtered_subreddit_counts, data, csv, parquet, stats,
                   header_written, kept, flushes, resumed, rewrites>>
    /\ UNCHANGED dumpsVars
    /\ UNCHANGED otherVars

\* the archive is exhausted.  process_comments flushes what is left in the
\* buffer and writes the statistics; process_submissions ends with its loop.
EndOfInput ==
    /\ pc = "streaming"
    /\ kind \in {"comments", "submissions"}
    /\ AtEnd
    /\ IF kind = "comments" /\ data # <<>>
       THEN \E result \in WriteResults :
              LET w == write_batch_to_disk(kind, data, csv, parquet,
                                           header_written, result)
              IN  /\ csv' = w.csv
                  /\ parquet' = w.parquet
                  /\ data' = (IF w.raised THEN data ELSE clear(data))
                  /\ flushes' = (IF w.raised THEN flushes
                                 ELSE Append(flushes, Len(data)))
                  /\ failure' = (IF w.raised THEN result ELSE "none")
                  /\ pc' = (IF w.raised THEN "failed" ELSE "done")
                  /\ stats' = (IF w.raised THEN stats ELSE Append(stats, Report))
                  /\ rewrites' = rewrites + (IF w.rewrote THEN 1 ELSE 0)
       ELSE /\ pc' = "done"
            /\ stats' = (IF kind = "comments" THEN Append(stats, Report) ELSE stats)
            /\ UNCHANGED <<csv, parquet, data, flushes, failure, rewrites>>
    /\ lastLine' = NoLine
    /\ UNCHANGED <<kind, batch_size, total_lines, filtered_counts, subreddit_counts,
                   filtered_subreddit_counts, header_written, kept, resumed>>
    /\ UNCHANGED dumpsVars
    /\ UNCHANGED otherVars

\* one call of reddit_utils.write_batch_to_disk with a batch of n new rows;
\* the caller keeps the returned flag for the next call
UtilsWriteBatch ==
    /\ pc = "streaming"
    /\ kind = "utils"
    /\ Len(flushes) < MaxCalls
    /\ \E n \in 1..MaxBatch, result \in WriteResults :
        LET base == SumSeq(flushes)
            df_batch == [i \in 1..n |-> base + i]
            w == write_batch_to_disk(kind, df_batch, csv, parquet, header_written, result)
        IN  /\ csv' = w.csv
            /\ parquet' = w.parquet
            /\ header_written' = w.header_written
            /\ data' = (IF w.raised THEN df_batch ELSE <<>>)
            /\ flushes' = (IF w.raised THEN flushes ELSE Append(flushes, n))
            /\ failure' = (IF w.raised THEN result ELSE "none")
            /\ pc' = (IF w.raised THEN "failed" ELSE "streaming")
            /\ rewrites' = rewrites + (IF w.rewrote THEN 1 ELSE 0)
    /\ UNCHANGED <<kind, batch_size, total_lines, filtered_counts, subreddit_counts,
                   filtered_subreddit_counts, stats, lastLine, kept, resumed>>
    /\ UNCHANGED dumpsVars
    /\ UNCHANGED otherVars

Next == ProcessLine \/ ReadFail \/ EndOfInput \/ UtilsWriteBatch

Spec == Init /\ [][Next]_vars

(* ---------------------- filter_reddit_dumps.main ---------------------- *)
\* the .zst files of <dataset_root>/submissions and of <dataset_root>/comments
submissions_files == <<"RS_a", "RS_b">>
comments_files == <<"RC_a", "RC_b">>

\* the archives in the order main meets them: the submissions loop, then the
\* comments loop
Listing ==
    [i \in DOMAIN submissions_files |->
        [name |-> submissions_files[i], kind |-> "submissions"]]
    \o [i \in DOMAIN comments_files |->
        [name |-> comments_files[i], kind |-> "comments"]]

ArchiveNames == {Listing[i].name : i \in DOMAIN Listing}

\* a record that passes every check, one of a forum that is not allow-listed,
\* and a line of JSON that is no object
KeepLine == Object("TestSub", "alice", {})
DropLine == Object("other", "alice", {})
RaiseLine == Plain("nonobject")

\* what an archive of the dataset holds
ArchiveContents ==
    {<<DropLine>>, <<KeepLine, KeepLine, DropLine, KeepLine>>,
     <<KeepLine, RaiseLine>>}

\* the output files of one archive: <base>.csv, <base>.parquet,
\* <base>_stats.txt and <base>_completed.txt
NoOutputs == [csv |-> NoCsv, parquet |-> NoParquet, stats |-> FALSE, marker |-> FALSE]

\* What goes wrong while one archive is handled: nothing; read_zst_file
\* raises when line at + 1 is asked for (at = 0: the archive cannot be
\* opened); call number at of write_batch_to_disk raises, in to_csv or in the
\* Parquet write; the completion marker cannot be written.
NoFault == [at |-> 0, result |-> "ok"]
Faults(lines) ==
    {NoFault, [at |-> 0, result |-> "marker"]}
    \cup {[at |-> n, result |-> "read"] : n \in 0..Len(lines)}
    \cup {[at |-> n, result |-> r] : n \in 1..Len(lines), r \in {"csv", "parquet"}}

\* process_and_save_batch(data, ...) followed by data.clear(); st.calls counts
\* the calls of write_batch_to_disk of this archive run
flush(k, st, fault) ==
    LET result == IF fault.at = st.calls + 1 /\ fault.result \in {"csv", "parquet"}
                  THEN fault.result ELSE "ok"
        w == write_batch_to_disk(k, st.data, st.csv, st.parquet, FALSE, result)
    IN  [st EXCEPT !.csv = w.csv, !.parquet = w.parquet, !.calls = @ + 1,
                   !.raised = w.raised,
                   !.data = IF w.raised THEN @ ELSE clear(@)]

\* the read loop of process_comments / process_submissions over the lines
\* that are left, from the state st of the run
RECURSIVE read_loop(_, _, _, _, _)
read_loop(k, lines, b, st, fault) ==
    IF st.raised \/ lines = <<>> THEN st
    ELSE IF fault.result = "read" /\ fault.at = st.n
    THEN [st EXCEPT !.raised = TRUE]
    ELSE LET n == st.n + 1
             out == Classify(k, Head(lines))
             buf == IF out = "kept" THEN Append(st.data, n) ELSE st.data
             read == [st EXCEPT !.n = n, !.data = buf]
         IN  IF out = "raise" THEN [read EXCEPT !.raised = TRUE]
             ELSE IF out = "kept" /\ BatchFull(buf, b)
             THEN read_loop(k, Tail(lines), b, flush(k, read, fault), fault)
             ELSE read_loop(k, Tail(lines), b, read, fault)

\* process_comments / process_submissions on one archive, writing into the
\* output files outs: the files they leave and whether they raised
process_archive(k, lines, b, outs, fault) ==
    LET st0 == [n |-> 0, data |-> <<>>, csv |-> outs.csv, parquet |-> outs.parquet,
                calls |-> 0, raised |-> FALSE]
        looped == read_loop(k, lines, b, st0, fault)
        eof == fault.result = "read" /\ fault.at = Len(lines)
        st == IF looped.raised \/ eof \/ k # "comments" \/ looped.data = <<>>
              THEN looped ELSE flush(k, looped, fault)
        raised == st.raised \/ eof
    IN  [csv |-> st.csv, parquet |-> st.parquet,
         stats |-> (outs.stats \/ (k = "comments" /\ ~raised)),
         raised |-> raised]

\* all(os.path.isfile(f) and os.path.getsize(f) > 0 for f in output_files)
files_exist(outs) ==
    /\ outs.csv.exists /\ outs.csv.lines # <<>>
    /\ outs.parquet.exists
    /\ outs.stats

\* except that ends the whole listing at the first archive that raises
on_error_abort(c) == Len(Listing) + 1

\* except Exception: the error is logged and the for loop takes the next file
on_error(c) == c + 1

DumpsInit ==
    /\ kind = "dumps"
    /\ batch_size \in {1, MaxBatch}
    /\ pc = "listing"
    /\ archives \in [ArchiveNames -> ArchiveContents]
    \* the first invocation finds an empty output_root
    /\ disk = [a \in ArchiveNames |-> NoOutputs]
    /\ cursor = 1
    /\ run = 1
    /\ outcome = [a \in ArchiveNames |-> "pending"]
    /\ faults = 0
    /\ tasks = {}
    /\ args = StreamArgs
    /\ output_directory = args.output_directory
    /\ subreddits_set = load_list_from_file(args.subreddits_file)
    /\ bot_usernames_set = load_list_from_file(args.bot_usernames_file)
    /\ previous = NoRun
    /\ max_workers = 0
    /\ failure = "none"
    /\ total_lines = 0
    /\ filtered_counts = <<>>
    /\ subreddit_counts = <<>>
    /\ filtered_subreddit_counts = <<>>
    /\ data = <<>>
    /\ csv = NoCsv
    /\ parquet = NoParquet
    /\ stats = <<>>
    /\ header_written = FALSE
    /\ lastLine = NoLine
    /\ kept = <<>>
    /\ flushes = <<>>
    /\ resumed = FALSE
    /\ rewrites = 0

\* the archive main is at
Current == Listing[cursor]

\* if os.path.exists(completion_marker): continue
DumpsSkipCompleted ==
    /\ kind = "dumps" /\ pc = "listing" /\ cursor \in DOMAIN Listing
    /\ disk[Current.name].marker
    /\ outcome' = [outcome EXCEPT ![Current.name] = "skipped"]
    /\ cursor' = cursor + 1
    /\ UNCHANGED <<kind, batch_size, pc, archives, disk, run, faults>>
    /\ UNCHANGED runVars
    /\ UNCHANGED otherVars

\* if files_exist: write the completion marker, continue
DumpsSkipExisting ==
    /\ kind = "dumps" /\ pc = "listing" /\ cursor \in DOMAIN Listing
    /\ ~disk[Current.name].marker
    /\ files_exist(disk[Current.name])
    /\ disk' = [disk EXCEPT ![Current.name].marker = TRUE]
    /\ outcome' = [outcome EXCEPT ![Current.name] = "marked"]
    /\ cursor' = cursor + 1
    /\ UNCHANGED <<kind, batch_size, pc, archives, run, faults>>
    /\ UNCHANGED runVars
    /\ UNCHANGED otherVars

\* try: process_submissions / process_comments, write the completion marker;
\* except Exception: log the error
DumpsProcess ==
    /\ kind = "dumps" /\ pc = "listing" /\ cursor \in DOMAIN Listing
    /\ ~disk[Current.name].marker
    /\ ~files_exist(disk[Current.name])
    /\ \E fault \in Faults(archives[Current.name]) :
        /\ fault # NoFault => faults < MaxFaults
        /\ faults' = faults + (IF fault # NoFault THEN 1 ELSE 0)
        /\ LET r == process_archive(Current.kind, archives[Current.name],
                                    batch_size, disk[Current.name], fault)
               caught == r.raised \/ fault.result = "marker"
           IN  /\ disk' = [disk EXCEPT ![Current.name] =
                             [csv |-> r.csv, parquet |-> r.parquet,
                              stats |-> r.stats, marker |-> ~caught]]
               /\ outcome' = [outcome EXCEPT ![Current.name] =
                                 IF caught THEN "error" ELSE "completed"]
               /\ cursor' = (IF caught THEN on_error(cursor) ELSE cursor + 1)
    /\ UNCHANGED <<kind, batch_size, pc, archives, run>>
    /\ UNCHANGED runVars
    /\ UNCHANGED otherVars

\* both loops are through: main returns
DumpsReturn ==
    /\ kind = "dumps" /\ pc = "listing" /\ cursor = Len(Listing) + 1
    /\ pc' = "returned"
    /\ UNCHANGED <<kind, batch_size, archives, disk, cursor, run, outcome, faults>>
    /\ UNCHANGED runVars
    /\ UNCHANGED otherVars

\* main is invoked again on the same dataset_root and output_root
DumpsRunAgain ==
    /\ kind = "dumps" /\ pc = "returned" /\ run < MaxRuns
    /\ run' = run + 1
    /\ cursor' = 1
    /\ pc' = "listing"
    /\ outcome' = [a \in ArchiveNames |-> "pending"]
    /\ UNCHANGED <<kind, batch_size, archives, disk, faults>>
    /\ UNCHANGED runVars
    /\ UNCHANGED otherVars

DumpsNext ==
    \/ DumpsSkipCompleted \/ DumpsSkipExisting \/ DumpsProcess
    \/ DumpsReturn \/ DumpsRunAgain

SpecDumps == DumpsInit /\ [][DumpsNext]_vars

(* ----------------- parallel_filter_reddit_dumps.main ------------------ *)
\* A file name is the sequence of its pieces, "." being a piece of its own;
\* no piece is made of other pieces, so two names are the same string exactly
\* when the sequences are equal.
SubmissionNames == {<<"RS_a", ".", "zst">>, <<"RS_b", ".", "zst">>}
CommentNames ==
    {<<"RC_a", ".", "zst">>, <<"RC_a", "_comments", ".", "zst">>,
     <<".", "zst">>, <<".", "zst", ".", "zst">>, <<"notes", ".", "txt">>}

\* f.endswith('.zst')
EndsWithZst(n) == Len(n) >= 2 /\ n[Len(n) - 1] = "." /\ n[Len(n)] = "zst"

\* the place of the last dot of a name, 0 when it has none
LastDot(n) ==
    IF \E i \in DOMAIN n : n[i] = "."
    THEN CHOOSE i \in DOMAIN n : n[i] = "." /\ \A j \in DOMAIN n : n[j] = "." => j <= i
    ELSE 0

\* os.path.splitext(os.path.basename(input_file))[0]: the name up to its
\* last dot; the dots a name begins with start no extension
base_name(n) ==
    IF LastDot(n) = 0 \/ \A j \in 1..LastDot(n) : n[j] = "." THEN n
    ELSE SubSeq(n, 1, LastDot(n) - 1)

Path(dir, n) == [dir |-> dir, name |-> n]

\* get_expected_output_files(input_file, output_directory, script_type)
get_expected_output_files(n, dir, script_type) ==
    IF script_type = "comments"
    THEN {Path(dir, base_name(n) \o <<"_comments", ".", "csv">>),
          Path(dir, base_name(n) \o <<"_comments", ".", "parquet">>)}
    ELSE {Path(dir, base_name(n) \o <<".", "csv">>),
          Path(dir, base_name(n) \o <<".", "parquet">>)}

\* output_csv_file and output_parquet_file of process_comments and of
\* process_submissions, and stats_output_file
DataFiles(t) ==
    {Path(t.output_directory, base_name(t.input_file) \o <<".", "csv">>),
     Path(t.output_directory, base_name(t.input_file) \o <<".", "parquet">>)}
StatsFile(t) ==
    Path(t.output_directory, base_name(t.input_file) \o <<"_stats", ".", "txt">>)
OutputFiles(t) == DataFiles(t) \cup {StatsFile(t)}

\* tasks.append((script, input_file, output directory))
Task(script, n) == [script |-> script, input_file |-> n, output_directory |-> script]

\* How the script a worker starts ends: exit status 0 with rows written or
\* with no record kept, a non-zero exit status behind some batches or
\* before any, or subprocess.run cannot start it.
ScriptExits == {"rows", "norows", "partial", "error", "nospawn"}

\* the files the script has created when it ends
Written(t, exit) ==
    CASE exit = "rows" ->
            IF t.script = "comments" THEN OutputFiles(t) ELSE DataFiles(t)
      [] exit = "norows" -> IF t.script = "comments" THEN {StatsFile(t)} ELSE {}
      [] exit = "partial" -> DataFiles(t)
      [] OTHER -> {}

\* process_file that lets the error of the script escape
process_file_raises(exit) ==
    IF exit \in {"rows", "norows"} THEN "True" ELSE "raised"

\* process_file: True, or False behind except CalledProcessError / Exception
process_file(exit) ==
    IF exit \in {"rows", "norows"} THEN "True" ELSE "False"

\* the archives of one kind that main makes a task of
Dispatched(script, files) ==
    {Task(script, n) : n \in {f \in archives[script] :
        /\ EndsWithZst(f)
        /\ ~(get_expected_output_files(f, script, script) \subseteq files)}}

ParInit ==
    /\ kind = "parallel"
    /\ pc = "start"
    /\ max_workers \in {1, MaxWorkers}
    /\ archives \in {[submissions |-> s, comments |-> c] :
                        s \in SUBSET SubmissionNames, c \in SUBSET CommentNames}
    /\ Cardinality(archives.submissions) + Cardinality(archives.comments) <= MaxArchives
    /\ disk = {}
    /\ run = 1
    /\ tasks = {}
    /\ args = StreamArgs
    /\ output_directory = args.output_directory
    /\ subreddits_set = load_list_from_file(args.subreddits_file)
    /\ bot_usernames_set = load_list_from_file(args.bot_usernames_file)
    /\ previous = NoRun
    /\ outcome = <<>>
    /\ cursor = 0
    /\ faults = 0
    /\ batch_size = 0
    /\ failure = "none"
    /\ total_lines = 0
    /\ filtered_counts = <<>>
    /\ subreddit_counts = <<>>
    /\ filtered_subreddit_counts = <<>>
    /\ data = <<>>
    /\ csv = NoCsv
    /\ parquet = NoParquet
    /\ stats = <<>>
    /\ header_written = FALSE
    /\ lastLine = NoLine
    /\ kept = <<>>
    /\ flushes = <<>>
    /\ resumed = FALSE
    /\ rewrites = 0

Queued == [state |-> "queued", result |-> "none"]
Running == {t \in tasks : outcome[t].state = "running"}

\* main up to the process pool: the tasks are built and all submitted, or
\* main returns because there is none
ParBuild ==
    /\ kind = "parallel" /\ pc = "start"
    /\ tasks' = Dispatched("submissions", disk) \cup Dispatched("comments", disk)
    /\ outcome' = [t \in tasks' |-> Queued]
    /\ pc' = (IF tasks' = {} THEN "returned" ELSE "dispatched")
    /\ UNCHANGED <<kind, batch_size, max_workers, archives, disk, cursor, run, faults>>
    /\ UNCHANGED runVars
    /\ UNCHANGED cliVars

\* a free worker of the pool takes a task from the queue
WorkerStart ==
    /\ kind = "parallel" /\ pc = "dispatched"
    /\ Cardinality(Running) < max_workers
    /\ \E t \in tasks :
        /\ outcome[t].state = "queued"
        /\ outcome' = [outcome EXCEPT ![t].state = "running"]
    /\ UNCHANGED <<kind, batch_size, pc, max_workers, archives, disk, cursor, run,
                   faults, tasks>>
    /\ UNCHANGED runVars
    /\ UNCHANGED cliVars

\* process_file returns in a worker: the script has ended
WorkerFinish ==
    /\ kind = "parallel" /\ pc = "dispatched"
    /\ \E t \in Running, exit \in ScriptExits :
        /\ outcome' = [outcome EXCEPT ![t] =
                          [state |-> "finished", result |-> process_file(exit)]]
        /\ disk' = disk \cup Written(t, exit)
    /\ UNCHANGED <<kind, batch_size, pc, max_workers, archives, cursor, run,
                   faults, tasks>>
    /\ UNCHANGED runVars
    /\ UNCHANGED cliVars

\* as_completed yields a finished future; main logs its result
MainCollect ==
    /\ kind = "parallel" /\ pc = "dispatched"
    /\ \E t \in tasks :
        /\ outcome[t].state = "finished"
        /\ outcome' = [outcome EXCEPT ![t].state = "collected"]
    /\ UNCHANGED <<kind, batch_size, pc, max_workers, archives, disk, cursor, run,
                   faults, tasks>>
    /\ UNCHANGED runVars
    /\ UNCHANGED cliVars

\* as_completed is exhausted and the with block of the pool is left
ParReturn ==
    /\ kind = "parallel" /\ pc = "dispatched"
    /\ \A t \in tasks : outcome[t].state = "collected"
    /\ pc' = "returned"
    /\ UNCHANGED <<kind, batch_size, max_workers, archives, disk, cursor, run,
                   faults, tasks, outcome>>
    /\ UNCHANGED runVars
    /\ UNCHANGED cliVars

\* main is invoked again on the same dataset_root and output_root
ParRunAgain ==
    /\ kind = "parallel" /\ pc = "returned" /\ run < MaxRuns
    /\ run' = run + 1
    /\ pc' = "start"
    /\ UNCHANGED <<kind, batch_size, max_workers, archives, disk, cursor,
                   faults, tasks, outcome>>
    /\ UNCHANGED runVars
    /\ UNCHANGED cliVars

ParNext ==
    \/ ParBuild \/ WorkerStart \/ WorkerFinish \/ MainCollect
    \/ ParReturn \/ ParRunAgain

SpecParallel == ParInit /\ [][ParNext]_vars

(* ---- the command line of filter_reddit_comments / _submissions -------- *)
\* (specification SpecCli: the script is run on one archive with fixed
\* lines, and then once more with the same arguments and a fresh output
\* directory)

\* the archives given as input_file
InputFiles ==
    {<<Object("TestSub", "alice", {}), Object(Absent, "alice", {}),
       Object("TestSub", "Spammer", {})>>,
     <<Object("testsub", "spammer", {}), Plain("blank"),
       Object("testsub", "alice", {})>>,
     <<Object("TestSub", "alice", {}), Object("testsub", "alice", {}),
       Plain("notjson")>>,
     <<Object("other", "alice", {}), Object(Null, "alice", {})>>}

\* the files given as subreddits_file and as bot_usernames_file, line by line
SubredditFiles ==
    {subreddits_file, <<"testsub">>, <<"", "TestSub">>, <<"other", " ", "TestSub">>, <<>>}
BotFiles == {bot_usernames_file, <<"spammer">>, <<>>}

\* os.getcwd()
getcwd == "cwd"

\* process_comments: if output_directory is None: output_directory = os.getcwd()
resolve_output_directory(d) == IF d = None THEN getcwd ELSE d

\* os.path.join(output_directory, ...) raises TypeError on None
join_raises(d) == d = None

\* the counters of the run before, taken over instead of fresh ones
counts_of_last_run(k) == filtered_counts

\* filtered_counts = {'not_interest_subreddit': 0, 'bad_lines': 0, ...}
fresh_counts(k) == [r \in Reasons(k) |-> 0]

CliInit ==
    /\ kind \in {"comments", "submissions"}
    /\ batch_size \in {1, MaxBatch}
    /\ args \in {[input_file |-> i, subreddits_file |-> s,
                  bot_usernames_file |-> b, output_directory |-> d] :
                    i \in InputFiles, s \in SubredditFiles, b \in BotFiles,
                    d \in {None, "out"}}
    /\ output_directory = args.output_directory
    /\ pc = "start"
    /\ run = 1
    /\ previous = NoRun
    /\ subreddits_set = {}
    /\ bot_usernames_set = {}
    \* the output directory holds no file
    /\ resumed = FALSE
    /\ csv = NoCsv
    /\ parquet = NoParquet
    /\ stats = <<>>
    /\ header_written = FALSE
    /\ failure = "none"
    /\ total_lines = 0
    /\ filtered_counts = [r \in Reasons(kind) |-> 0]
    /\ subreddit_counts = [f \in Forums |-> 0]
    /\ filtered_subreddit_counts = [f \in Forums |-> 0]
    /\ data = <<>>
    /\ lastLine = NoLine
    /\ kept = <<>>
    /\ flushes = <<>>
    /\ rewrites = 0
    /\ archives = <<>>
    /\ disk = <<>>
    /\ cursor = 0
    /\ outcome = <<>>
    /\ faults = 0
    /\ tasks = {}
    /\ max_workers = 0

\* main() calls process_comments / process_submissions, which runs up to its
\* read loop: output names, the two lists, empty buffer and fresh counters
CliStart ==
    /\ pc = "start"
    /\ IF kind = "submissions" /\ join_raises(output_directory)
       THEN /\ pc' = "failed"
            /\ failure' = "TypeError"
            /\ UNCHANGED <<output_directory, subreddits_set, bot_usernames_set,
                           total_lines, filtered_counts, subreddit_counts,
                           filtered_subreddit_counts, data, kept, flushes>>
       ELSE /\ pc' = "streaming"
            /\ failure' = "none"
            /\ output_directory' = (IF kind = "comments"
                                    THEN resolve_output_directory(output_directory)
                                    ELSE output_directory)
            /\ subreddits_set' = load_list_from_file(args.subreddits_file)
            /\ bot_usernames_set' = load_list_from_file(args.bot_usernames_file)
            /\ total_lines' = 0
            /\ filtered_counts' = fresh_counts(kind)
            /\ subreddit_counts' = [f \in Forums |-> 0]
            /\ filtered_subreddit_counts' = [f \in Forums |-> 0]
            /\ data' = <<>>
            /\ kept' = <<>>
            /\ flushes' = <<>>
    /\ lastLine' = NoLine
    /\ UNCHANGED <<kind, batch_size, args, previous, csv, parquet, stats,
                   header_written, resumed, rewrites, tasks, max_workers>>
    /\ UNCHANGED dumpsVars

\* the script has ended; it is started once more with the same arguments,
\* the output directory emptied
CliRunAgain ==
    /\ pc \in {"done", "failed"}
    /\ run < MaxRuns
    /\ previous' = [pc |-> pc, failure |-> failure,
                    csv_rows |-> DataRows(csv), parquet_rows |-> Len(parquet.rows),
                    filtered_counts |-> filtered_counts]
    /\ run' = run + 1
    /\ pc' = "start"
    /\ failure' = "none"
    /\ output_directory' = args.output_directory
    /\ csv' = NoCsv
    /\ parquet' = NoParquet
    /\ stats' = <<>>
    /\ lastLine' = NoLine
    /\ UNCHANGED <<kind, batch_size, args, subreddits_set, bot_usernames_set,
                   total_lines, filtered_counts, subreddit_counts,
                   filtered_subreddit_counts, data, kept, flushes,
                   header_written, resumed, rewrites, tasks, max_workers,
                   archives, disk, cursor, outcome, faults>>

CliNext == CliStart \/ ProcessLine \/ ReadFail \/ EndOfInput \/ CliRunAgain

SpecCli == CliInit /\ [][CliNext]_vars

(* -------- process_and_save_batch: the rows of a batch, by column ------- *)
\* (specification SpecBatch: process_comments over an archive of records
\* that no check rejects; the buffer holds the dicts of data.append, the
\* Parquet file the rows of df_batch)

\* the columns of the model
Fields ==
    {"id", "parent_id", "link_id", "subreddit_id", "subreddit_type", "approved_by",
     "body", "permalink", "stickied", "likes", "distinguished"}

boolean_columns ==
    {"author_premium", "author_is_blocked", "stickied", "score_hidden", "collapsed",
     "no_follow", "can_gild", "can_mod_post", "is_submitter", "send_replies",
     "archived", "locked", "saved", "author_patreon_flair", "likes"}

string_columns ==
    {"permalink", "body", "author", "subreddit", "author_fullname", "name",
     "unrepliable_reason", "collapsed_reason", "collapsed_reason_code",
     "associated_award"}

\* the columns of the model that hold text: neither boolean nor datetime,
\* number or JSON
TextFields == Fields \ boolean_columns

\* what a key of the source record holds: nothing, null or a string; for a
\* boolean key nothing, null, true, false, the string "yes" or the number 2
TextValues == {Absent, Null, "text"}
BooleanValues == {Absent, Null, "true", "false", "'yes'", "2"}
FieldValues(f) == IF f \in boolean_columns THEN BooleanValues ELSE TextValues

\* a record with every key present, and the records that differ from it in
\* one key
WellFormed == [f \in Fields |-> IF f \in boolean_columns THEN "false" ELSE "text"]
Objects ==
    UNION {{[WellFormed EXCEPT ![f] = v] : v \in FieldValues(f)} : f \in Fields}

\* the archives: one or two records that pass every check
BatchInputs == {<<a>> : a \in Objects} \cup {<<a, b>> : a, b \in Objects}

\* pd.NA
NA == "<NA>"

\* the dict of data.append: obj.get(key) is None for a missing key
record(obj) == [f \in Fields |-> Get(obj, f, Null)]

\* Series.fillna(value)
fillna(v, value) == IF v = Null THEN value ELSE v

\* the values BooleanArray takes: True, False and None
bool_like(v) == v \in {Null, "true", "false"}

\* df_batch[col].astype('boolean') raises TypeError (Need to pass bool-like
\* values) when the column holds anything else
astype_raises(rows) ==
    \E i \in DOMAIN rows, f \in Fields \cap boolean_columns : ~bool_like(rows[i][f])

\* one value of a column behind astype('boolean')
astype_boolean(v) == IF v = Null THEN NA ELSE v

\* df_batch as process_and_save_batch hands it to write_batch_to_disk
df_batch(rows) ==
    [i \in DOMAIN rows |->
        [f \in Fields |->
            IF f \in boolean_columns THEN astype_boolean(rows[i][f])
            ELSE IF f = "distinguished" THEN fillna(rows[i][f], "none")
            ELSE IF f \in string_columns THEN fillna(rows[i][f], "")
            ELSE rows[i][f]]]

BatchInit ==
    /\ kind = "comments"
    /\ batch_size \in {1, MaxBatch}
    /\ args \in {[StreamArgs EXCEPT !.input_file = i] : i \in BatchInputs}
    /\ output_directory = args.output_directory
    /\ subreddits_set = load_list_from_file(args.subreddits_file)
    /\ bot_usernames_set = load_list_from_file(args.bot_usernames_file)
    /\ previous = NoRun
    /\ pc = "streaming"
    /\ resumed = FALSE
    /\ csv = NoCsv
    /\ parquet = NoParquet
    /\ stats = <<>>
    /\ header_written = FALSE
    /\ failure = "none"
    /\ total_lines = 0
    /\ filtered_counts = fresh_counts(kind)
    /\ subreddit_counts = [f \in Forums |-> 0]
    /\ filtered_subreddit_counts = [f \in Forums |-> 0]
    /\ data = <<>>
    /\ lastLine = NoLine
    /\ kept = <<>>
    /\ flushes = <<>>
    /\ rewrites = 0
    /\ archives = <<>>
    /\ disk = <<>>
    /\ cursor = 0
    /\ run = 1
    /\ outcome = <<>>
    /\ faults = 0
    /\ tasks = {}
    /\ max_workers = 0

\* process_and_save_batch(data, ...) and data.clear(); after is the place the
\* caller goes on at when the call returns
SaveBatch(rows, after) ==
    IF astype_raises(rows)
    THEN /\ pc' = "failed"
         /\ failure' = "TypeError"
         /\ data' = rows
         /\ UNCHANGED <<csv, parquet, flushes, rewrites>>
    ELSE \E result \in WriteResults :
           LET w == write_batch_to_disk(kind, df_batch(rows), csv, parquet,
                                        header_written, result)
           IN  /\ csv' = w.csv
               /\ parquet' = w.parquet
               /\ data' = (IF w.raised THEN rows ELSE clear(rows))
               /\ flushes' = (IF w.raised THEN flushes
                              ELSE Append(flushes, Len(rows)))
               /\ failure' = (IF w.raised THEN result ELSE "none")
               /\ pc' = (IF w.raised THEN "failed" ELSE after)
               /\ rewrites' = rewrites + (IF w.rewrote THEN 1 ELSE 0)

\* one pass of the read loop over a record that no check rejects
BatchLine ==
    /\ pc = "streaming"
    /\ total_lines < Len(args.input_file)
    /\ LET n == total_lines + 1
           buf == Append(data, record(args.input_file[n]))
       IN  /\ total_lines' = n
           /\ lastLine' = KeepLine
           /\ subreddit_counts' = [subreddit_counts EXCEPT !["testsub"] = @ + 1]
           /\ filtered_subreddit_counts' =
                 [filtered_subreddit_counts EXCEPT !["testsub"] = @ + 1]
           /\ kept' = Append(kept, n)
           /\ IF BatchFull(buf, batch_size)
              THEN SaveBatch(buf, "streaming")
              ELSE /\ data' = buf
                   /\ UNCHANGED <<pc, failure, csv, parquet, flushes, rewrites>>
    /\ UNCHANGED <<kind, batch_size, filtered_counts, stats, header_written, resumed>>
    /\ UNCHANGED dumpsVars
    /\ UNCHANGED otherVars

\* the archive is exhausted: the trailing flush and the statistics
BatchEnd ==
    /\ pc = "streaming"
    /\ total_lines = Len(args.input_file)
    /\ IF data # <<>>
       THEN SaveBatch(data, "done")
       ELSE /\ pc' = "done"
            /\ UNCHANGED <<failure, data, csv, parquet, flushes, rewrites>>
    /\ stats' = (IF pc' = "done" THEN Append(stats, Report) ELSE stats)
    /\ lastLine' = NoLine
    /\ UNCHANGED <<kind, batch_size, total_lines, filtered_counts, subreddit_counts,
                   filtered_subreddit_counts, header_written, kept, resumed>>
    /\ UNCHANGED dumpsVars
    /\ UNCHANGED otherVars

BatchNext == BatchLine \/ BatchEnd

SpecBatch == BatchInit /\ [][BatchNext]_vars

(* ------------------------------ claims -------------------------------- *)
IsRun == kind \in {"comments", "submissions"}
\* the data rows the output files held when the run began
InitialRows == IF resumed THEN Len(OldParquet.rows) ELSE 0
\* their ids, in file order
InitialIds == IF resumed THEN OldParquet.rows ELSE <<>>

(* C1: in every statistics report process_comments writes, 'Total lines
   processed' equals 'Total lines kept for analysis' plus the sum of the
   per-reason rejection counts. *)
C1_TotalIsKeptPlusRejected ==
    \A i \in DOMAIN stats :
        stats[i].total_lines = stats[i].total_kept + Sum(stats[i].filtered_counts)

C1_Witness ==
    /\ kind = "comments" /\ pc = "done" /\ Len(stats) = 1
    /\ stats[1].total_lines = MaxLines
    /\ stats[1].total_kept = 1
    /\ stats[1].filtered_counts["bad_lines"] = 1
    /\ stats[1].filtered_counts["bots"] = 1

(* C2: every line read gets exactly one outcome and the run goes on: no line
   makes the run raise, and the lines read are the rejected ones plus the
   buffered or flushed ones. *)
C2_EveryLineHasOneOutcome ==
    IsRun =>
        /\ failure # "AttributeError"
        /\ total_lines = Sum(filtered_counts) + SumSeq(flushes) + Len(data)

(* C3: a record that is classified is counted under the first matching check
   of the fixed order and under no other, and is buffered exactly when no
   check matches. *)
C3_FirstMatchingCheckOnly ==
    [][ (total_lines' = total_lines + 1 /\ lastLine'.tag = "object"
            /\ failure' # "AttributeError")
        => LET r == FirstMatch(kind, lastLine')
           IN  IF r = "kept"
               THEN /\ filtered_counts' = filtered_counts
                    /\ SumSeq(flushes') + Len(data') = SumSeq(flushes) + Len(data) + 1
               ELSE /\ filtered_counts' = [filtered_counts EXCEPT ![r] = @ + 1]
                    /\ data' = data
                    /\ flushes' = flushes ]_vars

C3_Witness ==
    /\ kind = "comments" /\ total_lines = 1
    /\ lastLine = Object("TestSub", "Spammer", {"removal_reason"})
    /\ filtered_counts["bots"] = 1
    /\ filtered_counts["removed"] = 0
    /\ data = <<>>

(* C4: in the statistics of process_comments the per-forum 'lines kept for
   analysis' counts sum to the total kept count and to the rows written. *)
C4_PerForumKeptIsKept ==
    (kind = "comments" /\ pc = "done") =>
        /\ Sum(stats[1].filtered_subreddit_counts) = stats[1].total_kept
        /\ Sum(stats[1].filtered_subreddit_counts) = SumSeq(flushes)

(* C5: when process_submissions returns normally every kept record is in
   both sinks and none is left in the buffer. *)
C5_SubmissionsFlushTrailingBatch ==
    (kind = "submissions" /\ pc = "done") =>
        /\ data = <<>>
        /\ \A i \in DOMAIN kept :
              /\ \E j \in DOMAIN csv.lines : csv.lines[j] = Row(kept[i])
              /\ \E j \in DOMAIN parquet.rows : parquet.rows[j] = kept[i]

\* the flushes of a run of process_comments, as a state predicate: every
\* flush but the last of a finished run has batch_size rows, a finished run
\* made ceil(K/B) flushes, the last of K mod B rows when that is not zero, and
\* each sink holds the rows it began with plus the sizes of the flushes
FlushState ==
    kind = "comments" =>
        /\ \A i \in DOMAIN flushes :
              (i < Len(flushes) \/ pc # "done") => flushes[i] = batch_size
        /\ pc = "done" =>
              /\ Len(flushes) = (Len(kept) + batch_size - 1) \div batch_size
              /\ Len(kept) > 0 =>
                    flushes[Len(flushes)] =
                        (IF Len(kept) % batch_size # 0
                         THEN Len(kept) % batch_size ELSE batch_size)
        /\ failure # "parquet" => DataRows(csv) = InitialRows + SumSeq(flushes)
        /\ Len(parquet.rows) = InitialRows + SumSeq(flushes)

(* C6: process_comments with batch_size B and K kept records performs
   ceil(K/B) flushes; every flush but the last has B rows, the last has
   K mod B rows when that is not zero; the row count of each sink is the
   count it began with plus the sizes of the flushes so far, and never
   decreases. *)
C6_FlushesAreFullBatches ==
    [][ /\ FlushState'
        /\ DataRows(csv') >= DataRows(csv)
        /\ Len(parquet.rows') >= Len(parquet.rows) ]_vars

C6_Witness ==
    /\ kind = "comments" /\ pc = "done" /\ batch_size = 2
    /\ Len(kept) = 3
    /\ flushes = <<2, 1>>
    /\ parquet.rows = <<1, 2, 3>>

(* C7: a run that starts without a CSV file leaves, once anything is written,
   exactly one header line in it, and that line is the first. *)
C7_HeaderOnce ==
    (~resumed /\ csv.lines # <<>>) =>
        /\ HeaderCount(csv) = 1
        /\ csv.lines[1] = HeaderLine

C7_Witness ==
    /\ ~resumed /\ kind = "utils"
    /\ Len(flushes) = MaxCalls
    /\ HeaderCount(csv) = 1

(* C8: no call of write_batch_to_disk writes a header line into a CSV file
   that already has content. *)
C8_NoHeaderIntoExistingFile ==
    resumed => HeaderCount(csv) = HeaderCount(OldCsv)

(* C9: in a run that starts with neither output file, after every call of
   write_batch_to_disk that returns normally both files hold the same number
   of data rows. *)
C9_SinksSameRowCount ==
    (~resumed /\ failure # "parquet") => DataRows(csv) = Len(parquet.rows)

C9_Witness ==
    /\ ~resumed /\ kind = "comments" /\ failure = "none"
    /\ Len(flushes) = 2
    /\ DataRows(csv) = 2

(* C10: when a run stops abnormally the CSV file and the Parquet file hold
   the same rows. *)
C10_SameRowsOnAbort ==
    pc = "failed" => CsvIds(csv.lines) = parquet.rows

(* C11: in a run of process_comments that returns normally every kept record
   is written exactly once to each sink, in archive order: behind the rows
   the files began with, the rows of each file are the kept records, and
   while the run goes on the rows written followed by the buffer are the
   kept records so far. *)
C11_KeptOnceInOrder ==
    (kind = "comments" /\ pc # "failed") =>
        /\ CsvIds(csv.lines) \o data = InitialIds \o kept
        /\ parquet.rows \o data = InitialIds \o kept
        /\ pc = "done" => data = <<>>

C11_Witness ==
    /\ kind = "comments" /\ pc = "done" /\ batch_size = 1
    /\ kept = <<1, 3>>
    /\ Len(flushes) = 2
    /\ parquet.rows = InitialIds \o <<1, 3>>

\* the line numbers of the records of an archive that no check matches
KeptIds(k, lines) ==
    {i \in DOMAIN lines : lines[i].tag = "object" /\ FirstMatch(k, lines[i]) = "kept"}
\* how often a row is in a file
Count(rows, id) == Cardinality({j \in DOMAIN rows : rows[j] = id})

(* C12: after any sequence of runs of filter_reddit_dumps.main, a run in
   which an archive raised after some batches were flushed included, the CSV
   and Parquet files of a comments archive that is marked completed hold
   each kept record of the archive exactly once. *)
C12_CompletedHoldsEachOnce ==
    kind = "dumps" =>
        \A i \in DOMAIN Listing :
            (Listing[i].kind = "comments" /\ disk[Listing[i].name].marker) =>
                \A id \in KeptIds("comments", archives[Listing[i].name]) :
                    /\ Count(CsvIds(disk[Listing[i].name].csv.lines), id) = 1
                    /\ Count(disk[Listing[i].name].parquet.rows, id) = 1

(* C13: whenever the completion marker of an archive exists, of a comments
   archive or of a submissions archive, its CSV and Parquet files hold every
   kept record of the archive. *)
C13_MarkerMeansComplete ==
    kind = "dumps" =>
        \A i \in DOMAIN Listing :
            disk[Listing[i].name].marker =>
                \A id \in KeptIds(Listing[i].kind, archives[Listing[i].name]) :
                    /\ Count(CsvIds(disk[Listing[i].name].csv.lines), id) >= 1
                    /\ Count(disk[Listing[i].name].parquet.rows, id) >= 1

(* C20: in filter_reddit_dumps.main an exception raised while one archive is
   processed ends the processing of that archive only: no completion marker
   is written for it, main goes on with the next archive of the listing, and
   when main returns it has handled every archive. *)
C20_FailureEndsOneArchive ==
    kind = "dumps" =>
        /\ \A a \in ArchiveNames : outcome[a] = "error" => ~disk[a].marker
        /\ \A i \in DOMAIN Listing : outcome[Listing[i].name] # "pending" <=> i < cursor
        /\ pc = "returned" => \A a \in ArchiveNames : outcome[a] # "pending"

C20_Witness ==
    /\ kind = "dumps" /\ pc = "returned" /\ run = 1
    /\ outcome["RS_a"] = "error" /\ outcome["RS_b"] = "completed"
    /\ outcome["RC_a"] = "error" /\ outcome["RC_b"] = "completed"
    /\ ~disk["RS_a"].marker /\ ~disk["RC_a"].marker
    /\ disk["RS_b"].marker /\ disk["RC_b"].marker

(* C14: every archive run of process_comments or process_submissions that
   returns normally has written the statistics report exactly once, after
   the last batch was flushed, and no statistics are written while lines
   are still read. *)
C14_StatsOnceAfterLastFlush ==
    IsRun =>
        /\ pc = "done" => Len(stats) = 1
        /\ pc = "streaming" => stats = <<>>
        /\ stats # <<>> => data = <<>>

(* C15: every archive run of process_comments that returns normally leaves
   the row-oriented file, the columnar file and the statistics report on
   disk, also when the archive is empty or no record of it is kept. *)
C15_ThreeOutputsOnDisk ==
    (kind = "comments" /\ pc = "done") =>
        /\ csv.exists
        /\ parquet.exists
        /\ stats # <<>>

(* C16: in process_comments a blank line and a line that is not valid JSON
   each add one to total_lines and one to 'bad_lines', change no other
   rejection counter, no per-forum count, not the buffer and no file, and
   the run goes on with the next line. *)
C16_BadLineCountsOnce ==
    [][ (kind = "comments" /\ total_lines' = total_lines + 1
            /\ lastLine'.tag \in {"blank", "notjson"})
        => /\ filtered_counts' = [filtered_counts EXCEPT !["bad_lines"] = @ + 1]
           /\ subreddit_counts' = subreddit_counts
           /\ filtered_subreddit_counts' = filtered_subreddit_counts
           /\ data' = data
           /\ csv' = csv /\ parquet' = parquet /\ stats' = stats
           /\ pc' = "streaming" /\ failure' = "none" ]_vars

C16_Witness ==
    /\ kind = "comments" /\ pc = "streaming"
    /\ total_lines = 3
    /\ lastLine = Plain("notjson")
    /\ filtered_counts["bad_lines"] = 2
    /\ Sum(filtered_counts) = 2
    /\ data = <<1>>

\* the lower-cased forum name of a record; a record without the key has the
\* empty name, and null has no lower-cased form
ForumOf(obj) == IF obj.subreddit = Absent THEN "" ELSE Lower(obj.subreddit)

(* C17: in process_comments every line that parses as a JSON object adds
   exactly one to the total-seen count of its lower-cased forum name,
   whatever its filter outcome, a blank or unparsable line changes no
   total-seen count, and at the end of the run the total-seen counts sum to
   total_lines minus bad_lines. *)
C17_SeenCountsEveryObject ==
    [][ /\ (kind = "comments" /\ total_lines' = total_lines + 1)
            => IF lastLine'.tag = "object"
               THEN \E f \in Forums :
                      /\ subreddit_counts' = [subreddit_counts EXCEPT ![f] = @ + 1]
                      /\ lastLine'.subreddit # Null => f = ForumOf(lastLine')
               ELSE subreddit_counts' = subreddit_counts
        /\ (kind = "comments" /\ pc' = "done")
            => Sum(stats'[1].subreddit_counts)
                  = stats'[1].total_lines - stats'[1].filtered_counts["bad_lines"] ]_vars

(* C18: when the Parquet file already exists, no write_batch_to_disk, of
   filter_reddit_comments, of filter_reddit_submissions or of reddit_utils,
   reads the file back and writes the whole file anew: the batch is appended
   and the rows in the file stay as they are. *)
C18_ParquetNeverRewritten ==
    /\ rewrites = 0
    /\ SubSeq(parquet.rows, 1, InitialRows) = InitialIds

(* C19: in process_comments with batch_size >= 1 rows are written only when
   the buffer holds exactly batch_size records or the input is exhausted,
   and at every point of the run the buffer holds at most batch_size
   records. *)
C19_BufferBounded ==
    [][ kind = "comments" =>
        /\ Len(data') <= batch_size
        /\ (csv' # csv \/ parquet' # parquet) =>
              \/ /\ total_lines' = total_lines + 1
                 /\ Len(data) + 1 = batch_size
              \/ /\ total_lines' = total_lines
                 /\ pc' \in {"done", "failed"}
                 /\ Len(data) <= batch_size ]_vars

C19_Witness ==
    /\ kind = "comments" /\ pc = "streaming" /\ batch_size = MaxBatch
    /\ total_lines = MaxBatch + 1
    /\ flushes = <<MaxBatch>>
    /\ Len(data) = 1

(* C21: in parallel_filter_reddit_dumps.main a task that fails neither
   aborts nor cancels another: every task that was dispatched ends with a
   result of its own, process_file gives False for a failure and never
   raises, and main returns only when every task has finished. *)
C21_FailureLeavesSiblings ==
    kind = "parallel" =>
        /\ \A t \in tasks :
              /\ outcome[t].state \in {"queued", "running", "finished", "collected"}
              /\ outcome[t].result \in
                    (IF outcome[t].state \in {"queued", "running"}
                     THEN {"none"} ELSE {"True", "False"})
        /\ pc = "returned" => \A t \in tasks : outcome[t].state = "collected"

C21_Witness ==
    /\ kind = "parallel" /\ pc = "returned" /\ run = 1
    /\ Cardinality(tasks) = 2
    /\ \E t \in tasks : outcome[t].result = "False"
    /\ \E t \in tasks : outcome[t].result = "True"

(* C22: any two distinct tasks of one run of
   parallel_filter_reddit_dumps.main have disjoint output files (CSV,
   Parquet and statistics report). *)
C22_TasksWriteDisjointFiles ==
    kind = "parallel" =>
        \A t1 \in tasks, t2 \in tasks :
            t1 # t2 => OutputFiles(t1) \cap OutputFiles(t2) = {}

(* C26: parallel_filter_reddit_dumps.main makes no task of an archive whose
   CSV and Parquet files, as its script writes them, both exist; a second
   run of main behind a first run in which every task succeeded dispatches
   no task. *)
C26_ExistingOutputsSkipped ==
    [][ (kind = "parallel" /\ pc = "start" /\ pc' # "start") =>
          /\ \A t \in tasks' : ~(DataFiles(t) \subseteq disk)
          /\ (run > 1 /\ \A t \in tasks : outcome[t].result = "True")
                => tasks' = {} ]_vars

(* C27: between two lines of the read loop of process_comments total_lines
   equals the sum of the rejection counters plus the rows flushed so far in
   this run plus the records in the buffer; hence the total kept of the
   report equals the number of rows this run wrote to the CSV file and to
   the Parquet file. *)
C27_LinesAccountedFor ==
    kind = "comments" =>
        /\ pc = "streaming" =>
              total_lines = Sum(filtered_counts) + SumSeq(flushes) + Len(data)
        /\ \A i \in DOMAIN stats :
              /\ stats[i].total_kept = DataRows(csv) - (IF resumed THEN DataRows(OldCsv) ELSE 0)
              /\ stats[i].total_kept = Len(parquet.rows) - InitialRows

C27_Witness ==
    /\ kind = "comments" /\ pc = "done" /\ resumed
    /\ batch_size = MaxBatch /\ total_lines = MaxLines
    /\ flushes = <<MaxBatch>>
    /\ Sum(filtered_counts) = MaxLines - MaxBatch
    /\ Len(stats) = 1

(* C25: two runs of process_comments on the same archive with the same
   allow-list, block-list and batch size, each into a fresh output
   directory, that both return (or that both stop at the same line that
   raises) leave the same number of rows in each output file and the same
   per-reason rejection counts. *)
C25_SameResultsTwice ==
    LET same == /\ DataRows(csv) = previous.csv_rows
                /\ Len(parquet.rows) = previous.parquet_rows
                /\ filtered_counts = previous.filtered_counts
    IN  kind = "comments" =>
            /\ (previous.pc = "done" /\ pc = "done") => same
            /\ (/\ previous.pc = "failed" /\ previous.failure = "AttributeError"
                /\ pc = "failed" /\ failure = "AttributeError") => same

C25_Witness ==
    /\ kind = "comments" /\ run = MaxRuns /\ pc = "done"
    /\ previous.pc = "done"
    /\ previous.csv_rows = 2 /\ DataRows(csv) = 2
    /\ previous.filtered_counts["bad_lines"] = 1
    /\ batch_size = 1

\* the line with forum name and author name lower-cased
LowerLine(line) ==
    [line EXCEPT !.subreddit = IF @ \in {Absent, Null} THEN @ ELSE Lower(@),
                 !.author = IF @ \in {Absent, Null} THEN @ ELSE Lower(@)]

\* the two sets hold lower-cased, non-empty entries; a record, whatever its
\* forum and author, gets the outcome of its lower-cased form (none of the
\* keys of the policy checks is set); a record without 'subreddit' is
\* counted under the forum '' and rejected as not_interest_subreddit
ListsMatchAsStated ==
    /\ \A x \in subreddits_set \cup bot_usernames_set : x # "" /\ Lower(x) = x
    /\ \A line \in {Object(sub, aut, {}) : sub \in SubredditValues, aut \in AuthorValues} :
          line.tag = "object" =>
              /\ Classify(kind, line) = Classify(kind, LowerLine(line))
              /\ line.subreddit = Absent =>
                    /\ Classify(kind, line) = "not_interest_subreddit"
                    /\ CountedSeen(line)
                    /\ Lower(Get(line, "subreddit", "")) = ""

(* C28: the sets loaded from the two list files hold only lower-cased,
   non-empty entries and no step of the read loop changes them; forum and
   author matching does not depend on case; and a record with no
   'subreddit' key is rejected as not_interest_subreddit and counted under
   the forum '' in the total-seen table, whatever the allow-list file
   holds. *)
C28_ListsLowerCasedAndFixed ==
    [][ /\ ListsMatchAsStated
        /\ ListsMatchAsStated'
        /\ pc = "streaming" => UNCHANGED <<subreddits_set, bot_usernames_set>>
        /\ (/\ pc = "streaming" /\ total_lines' = total_lines + 1
            /\ lastLine'.tag = "object" /\ lastLine'.subreddit = Absent) =>
               /\ filtered_counts' = [filtered_counts EXCEPT
                                         !["not_interest_subreddit"] = @ + 1]
               /\ subreddit_counts' = [subreddit_counts EXCEPT ![""] = @ + 1]
               /\ filtered_subreddit_counts' = filtered_subreddit_counts
               /\ data' = data ]_vars

C28_Witness ==
    /\ kind = "comments" /\ pc = "streaming"
    /\ args.subreddits_file = <<"", "TestSub">>
    /\ subreddits_set = {"testsub"}
    /\ lastLine.tag = "object" /\ lastLine.subreddit = Absent
    /\ filtered_counts["not_interest_subreddit"] = 1
    /\ subreddit_counts[""] = 1
    /\ filtered_subreddit_counts["testsub"] = 1

(* C29: process_submissions called with output_directory None, as its
   command line does when --output_directory is omitted, writes into the
   current working directory and does not raise, as process_comments
   does. *)
C29_NoneMeansCwd ==
    (kind \in {"comments", "submissions"} /\ args.output_directory = None
        /\ pc # "start")
      => (output_directory = getcwd /\ failure # "TypeError")

(* C23: in every row process_comments writes, every column that holds text
   is non-null: a string field that is absent or null in the source record
   (id, parent_id, link_id, subreddit_id, subreddit_type and approved_by
   among them) is written as the empty string. *)
C23_StringColumnsNonNull ==
    \A i \in DOMAIN parquet.rows :
        \A f \in TextFields \ {"distinguished"} :
            /\ parquet.rows[i][f] # Null
            /\ args.input_file[i][f] \in {Absent, Null} => parquet.rows[i][f] = ""

(* C24: whatever a boolean column of a kept record holds, values that cannot
   be read as a boolean among them, process_and_save_batch does not raise:
   the value becomes true, false or unknown, the batch is written and the
   run goes on. *)
C24_BooleansNeverRaise ==
    /\ failure # "TypeError"
    /\ \A i \in DOMAIN parquet.rows :
          \A f \in Fields \cap boolean_columns :
              parquet.rows[i][f] \in {"true", "false", NA}
    /\ (pc \in {"streaming", "done"}) => Len(parquet.rows) + Len(data) = total_lines

====
